---- MODULE Spec2Model ----
(***************************************************************************)
(* A model of count_lines.py: the statement counter (tranverse_ast_stmt,   *)
(* count_statements), the line classifier (count_lines), the per-file      *)
(* analyzer (analyze_file) and the summing loop of main.                   *)
(*                                                                         *)
(* Four specifications share the variables:                                *)
(*   SpecLines  count_lines on every bounded source text                   *)
(*   SpecStmt   count_statements on every bounded syntax tree              *)
(*   SpecExpr   count_statements on flat modules of simple statements      *)
(*   SpecMain   main over every bounded sequence of files                  *)
(***************************************************************************)
EXTENDS Integers, Sequences, FiniteSets, TLC

VARIABLES
    \* count_lines
    source_code,            \* the argument: a sequence of characters
    lines_pc,               \* "call", "first_pass", "second_pass", "returned", "raised"
    num_lines,              \* line 101
    tokens,                 \* line 103
    nonblank_lines,         \* line 105
    inline_comment_lines,   \* line 106
    block_comment_lines,    \* line 107
    lines_result,           \* the returned triple, or the exception raised
    \* count_statements
    root_node,              \* line 68: the tree ast.parse returned
    exclude_name_patterns,  \* the compiled patterns
    stmt_pc,                \* "call", "returned", "raised"
    count,                  \* line 69
    visited,                \* the nodes the callback was invoked on, in order
    \* main and analyze_file
    filenames,              \* line 195: the files the walk yielded
    next_file,              \* position of the for loop of line 198
    main_pc,                \* "loop", "done", "crashed"
    num_file,               \* line 197
    totals,                 \* line 197: the four running totals
    log                     \* the log file: a sequence of entries

lines_vars == <<source_code, lines_pc, num_lines, tokens, nonblank_lines,
                inline_comment_lines, block_comment_lines, lines_result>>
stmt_vars == <<root_node, exclude_name_patterns, stmt_pc, count, visited>>
main_vars == <<filenames, next_file, main_pc, num_file, totals, log>>
vars == <<lines_vars, stmt_vars, main_vars>>

(***************************************************************************)
(* Generic helpers.                                                        *)
(***************************************************************************)
\* range(a, b + 1) as a set
LineRange(a, b) == a..b

\* all sequences over S of length at most n
SeqsUpTo(S, n) == UNION {[1..k -> S] : k \in 0..n}

Last(s) == s[Len(s)]

(***************************************************************************)
(* Source text.  A text is a sequence of characters; the characters are    *)
(*   "nl"  line feed          "sp"  space         "ff"  form feed          *)
(*   "op"  an operator character such as +        "hash"  #                *)
(*   "dq3" the delimiter """  "sq3" the delimiter '''                      *)
(* Each delimiter is one element: a text cannot split it.                  *)
(***************************************************************************)
MaxSrcLen == 5

Chars == {"nl", "sp", "ff", "op", "hash", "dq3", "sq3"}

TripleQuotes == {"dq3", "sq3"}

Sources == SeqsUpTo(Chars, MaxSrcLen)

\* io.StringIO(source_code).readlines(): every line keeps its line feed; a
\* last line without one is a line too.
RECURSIVE ReadLinesFrom(_, _, _)
ReadLinesFrom(s, i, cur) ==
    IF i > Len(s) THEN (IF cur = <<>> THEN <<>> ELSE <<cur>>)
    ELSE IF s[i] = "nl" THEN <<Append(cur, "nl")>> \o ReadLinesFrom(s, i + 1, <<>>)
    ELSE ReadLinesFrom(s, i + 1, Append(cur, s[i]))

ReadLines(s) == ReadLinesFrom(s, 1, <<>>)

(***************************************************************************)
(* tokenize.generate_tokens, as count_lines uses it: the type, the first   *)
(* and last line and the .line text of every token.                        *)
(***************************************************************************)
Tok(type, start, end, line) == [type |-> type, start |-> start, end |-> end, line |-> line]

\* the least index >= from of line at which character c stands, or 0
RECURSIVE FindChar(_, _, _)
FindChar(line, from, c) ==
    IF from > Len(line) THEN 0
    ELSE IF line[from] = c THEN from
    ELSE FindChar(line, from + 1, c)

\* leading whitespace of a new statement line: the first position after it
\* and the column it measures (a form feed resets the column)
RECURSIVE Measure(_, _, _)
Measure(line, pos, column) ==
    IF pos > Len(line) THEN [pos |-> pos, column |-> column]
    ELSE IF line[pos] = "sp" THEN Measure(line, pos + 1, column + 1)
    ELSE IF line[pos] = "ff" THEN Measure(line, pos + 1, 0)
    ELSE [pos |-> pos, column |-> column]

\* the tokens of one line from position pos on; cont is the delimiter of a
\* string left open at the end of the line, or "none"
RECURSIVE ScanLine(_, _, _)
ScanLine(line, pos, lnum) ==
    IF pos > Len(line) THEN [toks |-> <<>>, cont |-> "none"]
    ELSE LET c == line[pos] IN
      IF c \in {"sp", "ff"} THEN ScanLine(line, pos + 1, lnum)
      ELSE IF c = "nl" THEN
        [toks |-> <<Tok("NEWLINE", lnum, lnum, line)>>, cont |-> "none"]
      ELSE IF c = "hash" THEN
        LET e == FindChar(line, pos, "nl")
            rest == IF e = 0 THEN [toks |-> <<>>, cont |-> "none"]
                    ELSE ScanLine(line, e, lnum)
        IN [toks |-> <<Tok("COMMENT", lnum, lnum, line)>> \o rest.toks,
            cont |-> rest.cont]
      ELSE IF c \in TripleQuotes THEN
        LET e == FindChar(line, pos + 1, c) IN
          IF e = 0 THEN [toks |-> <<>>, cont |-> c]
          ELSE LET rest == ScanLine(line, e + 1, lnum) IN
            [toks |-> <<Tok("STRING", lnum, lnum, line)>> \o rest.toks,
             cont |-> rest.cont]
      ELSE
        LET rest == ScanLine(line, pos + 1, lnum) IN
          [toks |-> <<Tok("OP", lnum, lnum, line)>> \o rest.toks,
           cont |-> rest.cont]

\* the DEDENT tokens of a line at column, or the IndentationError
RECURSIVE Dedent(_, _, _, _)
Dedent(indents, column, lnum, line) ==
    IF column >= Last(indents) THEN [err |-> "none", indents |-> indents, toks |-> <<>>]
    ELSE IF \A i \in 1..Len(indents) : indents[i] # column
      THEN [err |-> "IndentationError", indents |-> indents, toks |-> <<>>]
    ELSE LET r == Dedent(SubSeq(indents, 1, Len(indents) - 1), column, lnum, line) IN
      [err |-> r.err, indents |-> r.indents,
       toks |-> <<Tok("DEDENT", lnum, lnum, line)>> \o r.toks]

\* last_line.strip(): the text without its leading whitespace
RECURSIVE LStrip(_)
LStrip(line) ==
    IF line # <<>> /\ line[1] \in {"sp", "ff", "nl"} THEN LStrip(Tail(line)) ELSE line

\* what follows the loop over lines: the implicit NEWLINE, the pending
\* DEDENTs and the ENDMARKER, all at line lnum
EndTokens(last_line, lnum, indents) ==
    (IF last_line # <<>> /\ Last(last_line) # "nl"
        /\ ~(LStrip(last_line) # <<>> /\ LStrip(last_line)[1] = "hash")
     THEN <<Tok("NEWLINE", lnum - 1, lnum - 1, <<>>)>> ELSE <<>>)
    \o [i \in 1..(Len(indents) - 1) |-> Tok("DEDENT", lnum, lnum, <<>>)]
    \o <<Tok("ENDMARKER", lnum, lnum, <<>>)>>

\* the loop over lines of the tokenizer.  cont, strstart, contline describe
\* a triple-quoted string left open by an earlier line.
RECURSIVE TokLoop(_, _, _, _, _, _)
TokLoop(lines, lnum, cont, strstart, contline, indents) ==
    LET line == IF lnum <= Len(lines) THEN lines[lnum] ELSE <<>>
        last_line == IF lnum >= 2 /\ lnum - 1 <= Len(lines) THEN lines[lnum - 1] ELSE <<>>
        Rest(r, ind) ==
          \* r: the scan of the rest of this line; then the next line
          LET n == IF r.cont = "none"
                   THEN TokLoop(lines, lnum + 1, "none", 0, <<>>, ind)
                   ELSE TokLoop(lines, lnum + 1, r.cont, lnum, line, ind)
          IN [err |-> n.err, toks |-> r.toks \o n.toks]
    IN
    IF cont # "none" THEN
      IF line = <<>> THEN [err |-> "TokenError", toks |-> <<>>]
      ELSE LET e == FindChar(line, 1, cont) IN
        IF e = 0 THEN TokLoop(lines, lnum + 1, cont, strstart, contline \o line, indents)
        ELSE LET n == Rest(ScanLine(line, e + 1, lnum), indents) IN
          [err |-> n.err,
           toks |-> <<Tok("STRING", strstart, lnum, contline \o line)>> \o n.toks]
    ELSE
      IF line = <<>> THEN [err |-> "none", toks |-> EndTokens(last_line, lnum, indents)]
      ELSE LET m == Measure(line, 1, 0) IN
        IF m.pos > Len(line)
          THEN [err |-> "none", toks |-> EndTokens(last_line, lnum, indents)]
        ELSE IF line[m.pos] \in {"hash", "nl"} THEN
          LET n == TokLoop(lines, lnum + 1, "none", 0, <<>>, indents) IN
            [err |-> n.err,
             toks |-> (IF line[m.pos] = "hash"
                       THEN <<Tok("COMMENT", lnum, lnum, line)>> ELSE <<>>)
                      \o <<Tok("NL", lnum, lnum, line)>> \o n.toks]
        ELSE
          LET ind1 == IF m.column > Last(indents) THEN Append(indents, m.column)
                      ELSE indents
              itok == IF m.column > Last(indents)
                      THEN <<Tok("INDENT", lnum, lnum, line)>> ELSE <<>>
              d == Dedent(ind1, m.column, lnum, line)
          IN IF d.err # "none" THEN [err |-> d.err, toks |-> <<>>]
             ELSE LET n == Rest(ScanLine(line, m.pos, lnum), d.indents) IN
               [err |-> n.err, toks |-> itok \o d.toks \o n.toks]

\* list(tokenize.generate_tokens(io.StringIO(source_code).readline))
GenerateTokens(s) == TokLoop(ReadLines(s), 1, "none", 0, <<>>, <<0>>)

(***************************************************************************)
(* count_lines (lines 96-136).                                             *)
(***************************************************************************)
\* a first pass that forgets the end marker
StructuralTypesWithoutEndMarker == {"ENCODING", "NEWLINE", "INDENT", "DEDENT", "NL"}

\* lines 110-113: the token types the first pass skips
StructuralTypes == {"ENCODING", "ENDMARKER", "NEWLINE", "INDENT", "DEDENT", "NL"}

\* line 115
CommentTypes == {"COMMENT", "TYPE_COMMENT"}

\* lines 109-123: the first loop over the tokens
FirstPass(toks) ==
    LET Marking(i) == toks[i].type \notin StructuralTypes /\ toks[i].type # "STRING"
        idx == 1..Len(toks)
    IN [nonblank |-> UNION {LineRange(toks[i].start, toks[i].end) :
                              i \in {j \in idx : Marking(j)}},
        inline |-> UNION {LineRange(toks[i].start, toks[i].end) :
                              i \in {j \in idx : toks[j].type \in CommentTypes}}]

\* line 128: t.line.replace("\n", "").replace(" ", "").replace("\t", "").replace("\r", "")
RemovedChars == {"nl", "sp", "tab", "cr"}

Replaced(line) == SelectSeq(line, LAMBDA c : c \notin RemovedChars)

\* lines 129-130
LooksLikeBlockComment(line) ==
    LET l == Replaced(line) IN
      l # <<>> /\ \E q \in TripleQuotes : l[1] = q /\ Last(l) = q

\* lines 126-134: the second loop over the tokens, from token i on
RECURSIVE SecondPass(_, _, _, _)
SecondPass(toks, i, nonblank, block) ==
    IF i > Len(toks) THEN [nonblank |-> nonblank, block |-> block]
    ELSE IF toks[i].type = "STRING" /\ LooksLikeBlockComment(toks[i].line) THEN
      LET new == LineRange(toks[i].start, toks[i].end) \ nonblank IN
        SecondPass(toks, i + 1, nonblank \cup new, block \cup new)
    ELSE SecondPass(toks, i + 1, nonblank, block)

LinesIdle ==
    /\ lines_pc = "idle" /\ source_code = <<>> /\ num_lines = 0 /\ tokens = <<>>
    /\ nonblank_lines = {} /\ inline_comment_lines = {} /\ block_comment_lines = {}
    /\ lines_result = <<>>

LinesInit ==
    /\ source_code \in Sources
    /\ lines_pc = "call"
    /\ num_lines = 0
    /\ tokens = <<>>
    /\ nonblank_lines = {}
    /\ inline_comment_lines = {}
    /\ block_comment_lines = {}
    /\ lines_result = <<>>

\* lines 101-107; a tokenizer error leaves count_lines at line 103
Tokenize ==
    /\ lines_pc = "call"
    /\ LET r == GenerateTokens(source_code) IN
         /\ num_lines' = Len(ReadLines(source_code))
         /\ IF r.err # "none"
            THEN /\ lines_pc' = "raised"
                 /\ lines_result' = <<r.err>>
                 /\ tokens' = tokens
            ELSE /\ lines_pc' = "first_pass"
                 /\ tokens' = r.toks
                 /\ lines_result' = lines_result
    /\ UNCHANGED <<source_code, nonblank_lines, inline_comment_lines, block_comment_lines>>
    /\ UNCHANGED <<stmt_vars, main_vars>>

\* lines 109-123
FirstLoop ==
    /\ lines_pc = "first_pass"
    /\ nonblank_lines' = FirstPass(tokens).nonblank
    /\ inline_comment_lines' = FirstPass(tokens).inline
    /\ lines_pc' = "second_pass"
    /\ UNCHANGED <<source_code, num_lines, tokens, block_comment_lines, lines_result>>
    /\ UNCHANGED <<stmt_vars, main_vars>>

\* lines 126-136
SecondLoop ==
    /\ lines_pc = "second_pass"
    /\ LET r == SecondPass(tokens, 1, nonblank_lines, block_comment_lines) IN
         /\ nonblank_lines' = r.nonblank
         /\ block_comment_lines' = r.block
         /\ lines_result' = <<num_lines, Cardinality(r.nonblank),
                              Cardinality(inline_comment_lines \cup r.block)>>
    /\ lines_pc' = "returned"
    /\ UNCHANGED <<source_code, num_lines, tokens, inline_comment_lines>>
    /\ UNCHANGED <<stmt_vars, main_vars>>

LinesNext == Tokenize \/ FirstLoop \/ SecondLoop

(***************************************************************************)
(* Syntax trees.  A node carries its kind and the fields the traversal or  *)
(* the callback can read: name (definitions), value (the kind of the       *)
(* expression of an Expr statement), and the statement lists body, orelse, *)
(* handlers, finalbody and cases (a match statement's match_case nodes).   *)
(* A field a kind does not have is the empty list, or "" for name/value.   *)
(***************************************************************************)
Node(kind, name, value, body, orelse, handlers, finalbody, cases) ==
    [kind |-> kind, name |-> name, value |-> value, body |-> body, orelse |-> orelse,
     handlers |-> handlers, finalbody |-> finalbody, cases |-> cases]

Leaf(kind, value) == Node(kind, <<>>, value, <<>>, <<>>, <<>>, <<>>, <<>>)

\* lines 22-25: the kinds whose body alone is visited
BodyKinds == {"Module", "With", "AsyncWith", "ExceptHandler",
              "AsyncFunctionDef", "FunctionDef", "ClassDef"}

\* lines 30-35: the kinds at which the traversal ends
SimpleKinds == {"Return", "Delete", "Assign", "AugAssign", "Raise", "Assert",
                "Import", "ImportFrom", "Global", "Nonlocal", "Pass", "Break",
                "Continue", "Expr"}

\* lines 39-41: the kinds whose body and orelse are visited
LoopKinds == {"For", "AsyncFor", "While", "If"}

\* line 48
TryKinds == {"Try"}

\* the subclasses of ast.stmt the branches above do not name (line 59 names
\* Match and TryStar; an annotated assignment is a third)
OtherStmtKinds == {"Match", "TryStar", "AnnAssign"}

\* isinstance(node, ast.stmt), line 64: Module, ExceptHandler and match_case
\* are nodes but not statements
StmtKinds == ((BodyKinds \ {"Module", "ExceptHandler"}) \cup SimpleKinds
              \cup LoopKinds \cup TryKinds \cup OtherStmtKinds)

\* line 86
DefKinds == {"FunctionDef", "AsyncFunctionDef", "ClassDef"}

\* a callback that forgets the await expressions
EffectValueKindsWithoutAwait == {"Yield", "YieldFrom", "Call"}

\* lines 79-81
EffectValueKinds == {"Await", "Yield", "YieldFrom", "Call"}

\* the kinds of expression an Expr statement is given in the inputs
ValueKinds == {"Call", "Await", "Yield", "YieldFrom", "Constant", "Name", "BinOp"}

(***************************************************************************)
(* Names and patterns.  A name is a sequence of letters; a pattern is a    *)
(* literal, and p.match(name) succeeds when the literal is a prefix of the *)
(* name (re.match anchors at the start, not at the end).                   *)
(***************************************************************************)
IsPrefix(p, name) == Len(p) <= Len(name) /\ SubSeq(name, 1, Len(p)) = p

\* p.match(node.name) is not None
PatternMatch(p, name) == IsPrefix(p, name)

\* line 87: any([p.match(node.name) is not None for p in exclude_name_patterns])
AnyPatternMatches(patterns, name) ==
    \E i \in 1..Len(patterns) : PatternMatch(patterns[i], name)

(***************************************************************************)
(* count_statements (lines 67-93).                                         *)
(***************************************************************************)
\* a callback that counts no block that is only entered
EffectiveCountBlocksZero(node) ==
    IF node.kind \in {"Module", "With", "AsyncWith", "ExceptHandler"} THEN 0
    ELSE IF node.kind = "Expr" THEN
      (IF node.value \in EffectValueKinds THEN 1 ELSE 0)
    ELSE 1

\* lines 75-84: what the callback adds to count at node
EffectiveCount(node) ==
    IF node.kind = "Module" THEN 0
    ELSE IF node.kind = "Expr" THEN
      (IF node.value \in EffectValueKinds THEN 1 ELSE 0)
    ELSE 1

\* a callback that never stops the traversal
ContinueTranversalAlways(node, patterns) == TRUE

\* lines 86-90: what the callback returns at node
ContinueTranversal(node, patterns) ==
    ~(node.kind \in DefKinds /\ AnyPatternMatches(patterns, node.name))

\* lines 22-64: the statement lists the traversal descends into, in order,
\* each with the name of its field
VisitedFields(node) ==
    IF node.kind \in BodyKinds THEN <<"body">>
    ELSE IF node.kind \in SimpleKinds THEN <<>>
    ELSE IF node.kind \in LoopKinds THEN <<"body", "orelse">>
    ELSE IF node.kind \in TryKinds THEN <<"body", "handlers", "orelse", "finalbody">>
    ELSE <<>>

\* a last branch that rejects every kind the branches before it do not name
AssertFailsOnUnhandledKind(node) ==
    node.kind \notin BodyKinds \cup SimpleKinds \cup LoopKinds \cup TryKinds

\* line 64: the assert of the last branch fails
AssertFails(node) ==
    /\ node.kind \notin BodyKinds \cup SimpleKinds \cup LoopKinds \cup TryKinds
    /\ node.kind \notin StmtKinds

\* tranverse_ast_stmt(node, callback) with the callback of count_statements:
\* the paths of the nodes the callback is invoked on, in order, and whether
\* an assertion failed.  A path is the sequence of <<field, index>> steps
\* from the root.  The traversal stops at the first failed assertion.
RECURSIVE Tranverse(_, _, _)
RECURSIVE TranverseList(_, _, _, _, _)
RECURSIVE TranverseFields(_, _, _, _)

Tranverse(node, path, patterns) ==
    IF ~ContinueTranversal(node, patterns)
      THEN [calls |-> <<path>>, failed |-> FALSE]
    ELSE IF AssertFails(node)
      THEN [calls |-> <<path>>, failed |-> TRUE]
    ELSE LET r == TranverseFields(node, path, patterns, VisitedFields(node)) IN
      [calls |-> <<path>> \o r.calls, failed |-> r.failed]

TranverseFields(node, path, patterns, fields) ==
    IF fields = <<>> THEN [calls |-> <<>>, failed |-> FALSE]
    ELSE LET r == TranverseList(node[Head(fields)], Head(fields), 1, path, patterns) IN
      IF r.failed THEN r
      ELSE LET q == TranverseFields(node, path, patterns, Tail(fields)) IN
        [calls |-> r.calls \o q.calls, failed |-> q.failed]

TranverseList(stmts, field, i, path, patterns) ==
    IF i > Len(stmts) THEN [calls |-> <<>>, failed |-> FALSE]
    ELSE LET r == Tranverse(stmts[i], Append(path, <<field, i>>), patterns) IN
      IF r.failed THEN r
      ELSE LET q == TranverseList(stmts, field, i + 1, path, patterns) IN
        [calls |-> r.calls \o q.calls, failed |-> q.failed]

\* the node of tree at path
RECURSIVE NodeAt(_, _)
NodeAt(tree, path) ==
    IF path = <<>> THEN tree
    ELSE NodeAt(tree[Head(path)[1]][Head(path)[2]], Tail(path))

\* the sum of the callback's increments over the calls made
RECURSIVE SumCounts(_, _, _)
SumCounts(tree, calls, i) ==
    IF i > Len(calls) THEN 0
    ELSE EffectiveCount(NodeAt(tree, calls[i])) + SumCounts(tree, calls, i + 1)

(***************************************************************************)
(* ast.parse (line 68).  The parser is modelled by what it can return: it  *)
(* grows the tree one node at a time, in source order, always at the right *)
(* edge of the tree, and returns once the tree is one the grammar allows:  *)
(* every body but the Module's is non-empty, a try has a handler or a      *)
(* finalbody and its orelse needs a handler, a try-star has a handler, a   *)
(* match has a case.                                                       *)
(***************************************************************************)
\* the most nodes below the Module of a tree of SpecStmt
MaxNodes == 4

\* the most nodes below the Module of a tree of SpecExpr
MaxStmts == 2

Names == {<<"t">>, <<"a", "t">>}

PatternLists == {<<>>, << <<"t">> >>}

DefNode(kind, name) == Node(kind, name, "", <<>>, <<>>, <<>>, <<>>, <<>>)

\* the nodes the input trees are drawn from: at least one kind of every
\* branch of the traversal and of the callback
InputStmts ==
    {Leaf("Assign", ""), Leaf("Expr", "Constant"), Leaf("AnnAssign", "")}
    \cup {DefNode(k, nm) : k \in {"FunctionDef", "ClassDef"}, nm \in Names}
    \cup {Leaf(k, "") : k \in {"With", "If", "Try", "TryStar", "Match"}}

\* the nodes the trees of SpecExpr are drawn from: every simple statement,
\* an Expr of every kind of value, and one block to nest them in
InputSimpleStmts ==
    {Leaf(k, "") : k \in (SimpleKinds \ {"Expr"}) \cup {"AnnAssign", "With"}}
    \cup {Leaf("Expr", v) : v \in ValueKinds}

\* the list fields of a node, in source order
FieldsOf(kind) ==
    IF kind \in BodyKinds \cup {"match_case"} THEN <<"body">>
    ELSE IF kind \in LoopKinds THEN <<"body", "orelse">>
    ELSE IF kind \in {"Try", "TryStar"} THEN <<"body", "handlers", "orelse", "finalbody">>
    ELSE IF kind = "Match" THEN <<"cases">>
    ELSE <<>>

\* the nodes a field holds, stmts being the statements to draw from
ChildrenFor(field, stmts) ==
    IF field = "handlers" THEN {Leaf("ExceptHandler", "")}
    ELSE IF field = "cases" THEN {Leaf("match_case", "")}
    ELSE stmts

\* what the grammar demands of one node
NodeComplete(n) ==
    /\ (n.kind # "Module" /\ FieldsOf(n.kind) # <<>> /\ FieldsOf(n.kind)[1] = "body")
         => n.body # <<>>
    /\ n.kind = "Match" => n.cases # <<>>
    /\ n.kind = "Try" => (n.handlers # <<>> \/ n.finalbody # <<>>)
    /\ n.kind = "Try" => (n.orelse # <<>> => n.handlers # <<>>)
    /\ n.kind = "TryStar" => n.handlers # <<>>

AllFields == <<"body", "handlers", "orelse", "finalbody", "cases">>

RECURSIVE TreeComplete(_)
TreeComplete(n) ==
    /\ NodeComplete(n)
    /\ \A i \in 1..Len(AllFields) :
         \A j \in 1..Len(n[AllFields[i]]) : TreeComplete(n[AllFields[i]][j])

RECURSIVE NodeCount(_)
RECURSIVE NodeCountList(_, _)
NodeCount(n) ==
    1 + NodeCountList(n.body, 1) + NodeCountList(n.handlers, 1) + NodeCountList(n.orelse, 1)
      + NodeCountList(n.finalbody, 1) + NodeCountList(n.cases, 1)
NodeCountList(l, i) == IF i > Len(l) THEN 0 ELSE NodeCount(l[i]) + NodeCountList(l, i + 1)

\* the last field of n, in source order, that holds a node; 0 if none does
LastUsedField(n) ==
    LET fs == FieldsOf(n.kind)
        used == {i \in 1..Len(fs) : n[fs[i]] # <<>>}
    IN IF used = {} THEN 0 ELSE CHOOSE i \in used : \A j \in used : j <= i

\* the paths of the nodes on the right edge of the tree
RECURSIVE RightEdge(_, _)
RightEdge(n, path) ==
    LET k == LastUsedField(n) IN
      IF k = 0 THEN {path}
      ELSE LET f == FieldsOf(n.kind)[k] IN
        {path} \cup RightEdge(n[f][Len(n[f])], Append(path, <<f, Len(n[f])>>))

\* tree with node appended to the field of the node at path
RECURSIVE AppendAt(_, _, _, _)
AppendAt(tree, path, field, node) ==
    IF path = <<>> THEN [tree EXCEPT ![field] = Append(@, node)]
    ELSE LET f == Head(path)[1]
             i == Head(path)[2]
         IN [tree EXCEPT ![f] = [@ EXCEPT ![i] = AppendAt(@, Tail(path), field, node)]]

\* the parser may put the next node at the end of field number k of n: the
\* fields before it are closed, and so is the subtree that was last
CanExtend(n, k) ==
    LET fs == FieldsOf(n.kind)
        u == LastUsedField(n)
    IN /\ k \in 1..Len(fs)
       /\ k >= u
       /\ u > 0 => TreeComplete(n[fs[u]][Len(n[fs[u]])])
       /\ (k > 1 /\ fs[1] = "body") => n.body # <<>>
       /\ (n.kind = "Try" /\ fs[k] = "orelse") => n.handlers # <<>>
       /\ (n.kind = "TryStar" /\ fs[k] \in {"orelse", "finalbody"}) => n.handlers # <<>>

ModuleNode == Node("Module", <<>>, "", <<>>, <<>>, <<>>, <<>>, <<>>)

StmtIdle ==
    /\ stmt_pc = "idle" /\ root_node = <<>> /\ exclude_name_patterns = <<>>
    /\ count = 0 /\ visited = <<>>

StmtInit(patterns) ==
    /\ root_node = ModuleNode
    /\ exclude_name_patterns \in patterns
    /\ stmt_pc = "parse"
    /\ count = 0
    /\ visited = <<>>

\* line 68, one node of the tree being built
ParseNode(stmts, max) ==
    /\ stmt_pc = "parse"
    /\ NodeCount(root_node) <= max
    /\ \E path \in RightEdge(root_node, <<>>) :
         LET n == NodeAt(root_node, path) IN
           \E k \in 1..Len(FieldsOf(n.kind)) :
             /\ CanExtend(n, k)
             /\ \E c \in ChildrenFor(FieldsOf(n.kind)[k], stmts) :
                  root_node' = AppendAt(root_node, path, FieldsOf(n.kind)[k], c)
    /\ UNCHANGED <<exclude_name_patterns, stmt_pc, count, visited>>
    /\ UNCHANGED <<lines_vars, main_vars>>

\* lines 68-93: ast.parse returns the tree and the rest of the call runs
CountStatements ==
    /\ stmt_pc = "parse"
    /\ TreeComplete(root_node)
    /\ LET r == Tranverse(root_node, <<>>, exclude_name_patterns) IN
         /\ visited' = r.calls
         /\ count' = SumCounts(root_node, r.calls, 1)
         /\ stmt_pc' = IF r.failed THEN "raised" ELSE "returned"
    /\ UNCHANGED <<root_node, exclude_name_patterns>>
    /\ UNCHANGED <<lines_vars, main_vars>>

(***************************************************************************)
(* analyze_file (lines 139-152) and main (lines 181-216).  A file is what  *)
(* reading and analysing it does: raises names the exception that open,    *)
(* read, count_statements or count_lines raises ("none" if none does) and  *)
(* metrics is the 4-tuple line 152 returns otherwise.                      *)
(***************************************************************************)
MaxFiles == 3

\* the exception classes and their base classes
BaseClass(c) ==
    CASE c = "FileNotFoundError" -> "OSError"
      [] c = "PermissionError" -> "OSError"
      [] c = "OSError" -> "Exception"
      [] c = "UnicodeDecodeError" -> "ValueError"
      [] c = "ValueError" -> "Exception"
      [] c = "IndentationError" -> "SyntaxError"
      [] c = "SyntaxError" -> "Exception"
      [] c = "TokenError" -> "Exception"
      [] OTHER -> "BaseException"

\* isinstance(exc, classes), as an except clause tests it
RECURSIVE IsInstance(_, _)
IsInstance(c, classes) ==
    \/ c \in classes
    \/ c # "BaseException" /\ IsInstance(BaseClass(c), classes)

\* line 145
OpenErrors == {"FileNotFoundError", "OSError"}

\* line 148
SyntaxErrors == {"SyntaxError", "TokenError"}

\* what reading a file can raise (lines 141-142): a missing file, a file
\* that may not be read, bytes that are not UTF-8
ReadRaises == {"FileNotFoundError", "PermissionError", "UnicodeDecodeError"}

\* what analysing the text can raise (lines 143-144)
AnalysisRaises == {"SyntaxError", "IndentationError", "TokenError"}

\* the 4-tuples a file that is read and analysed gives
MetricsOfFiles == {<<1, 1, 1, 0>>, <<3, 2, 1, 1>>}

Files ==
    {[raises |-> e, metrics |-> <<>>] : e \in ReadRaises \cup AnalysisRaises}
    \cup {[raises |-> "none", metrics |-> m] : m \in MetricsOfFiles}

\* analyze_file(path): the value returned (<<>> for None), the log entry
\* written, and the exception that leaves the function ("none" if none)
AnalyzeFile(i, file) ==
    IF file.raises = "none"
      THEN [result |-> file.metrics, logged |-> <<>>, raised |-> "none"]
    ELSE IF IsInstance(file.raises, OpenErrors)
      THEN [result |-> <<>>, logged |-> <<[msg |-> "Failed to open", file |-> i]>>,
            raised |-> "none"]
    ELSE IF IsInstance(file.raises, SyntaxErrors)
      THEN [result |-> <<>>, logged |-> <<[msg |-> "File has syntax error", file |-> i]>>,
            raised |-> "none"]
    ELSE [result |-> <<>>, logged |-> <<>>, raised |-> file.raises]

MainInit ==
    /\ filenames \in SeqsUpTo(Files, MaxFiles)
    /\ next_file = 1
    /\ main_pc = "loop"
    /\ num_file = 0
    /\ totals = <<0, 0, 0, 0>>
    /\ log = <<>>

\* lines 198-211: one turn of the loop
AnalyzeNext ==
    /\ main_pc = "loop"
    /\ next_file <= Len(filenames)
    /\ LET r == AnalyzeFile(next_file, filenames[next_file]) IN
         IF r.raised # "none" THEN
           /\ main_pc' = "crashed"
           /\ log' = log \o r.logged
           /\ UNCHANGED <<next_file, num_file, totals>>
         ELSE IF r.result = <<>> THEN
           /\ log' = log \o r.logged
           /\ next_file' = next_file + 1
           /\ UNCHANGED <<main_pc, num_file, totals>>
         ELSE
           /\ num_file' = num_file + 1
           /\ log' = log \o r.logged
                       \o <<[msg |-> "Result", file |-> next_file, metrics |-> r.result]>>
           /\ totals' = [k \in 1..4 |-> totals[k] + r.result[k]]
           /\ next_file' = next_file + 1
           /\ UNCHANGED main_pc
    /\ UNCHANGED filenames
    /\ UNCHANGED <<lines_vars, stmt_vars>>

\* lines 213-216
OverallResult ==
    /\ main_pc = "loop"
    /\ next_file > Len(filenames)
    /\ log' = Append(log, [msg |-> "Overall result", files |-> num_file, metrics |-> totals])
    /\ main_pc' = "done"
    /\ UNCHANGED <<filenames, next_file, num_file, totals>>
    /\ UNCHANGED <<lines_vars, stmt_vars>>

MainNext == AnalyzeNext \/ OverallResult

MainIdle ==
    /\ main_pc = "idle" /\ filenames = <<>> /\ next_file = 0 /\ num_file = 0
    /\ totals = <<>> /\ log = <<>>

InitLines == LinesInit /\ StmtIdle /\ MainIdle

SpecLines == InitLines /\ [][LinesNext]_vars

\* the parser at work on a tree of SpecStmt, and on one of SpecExpr
ParseStmt == ParseNode(InputStmts, MaxNodes)

ParseSimple == ParseNode(InputSimpleStmts, MaxStmts)

InitStmt == StmtInit(PatternLists) /\ LinesIdle /\ MainIdle

StmtNext == ParseStmt \/ CountStatements

SpecStmt == InitStmt /\ [][StmtNext]_vars

InitExpr == StmtInit({<<>>}) /\ LinesIdle /\ MainIdle

ExprNext == ParseSimple \/ CountStatements

SpecExpr == InitExpr /\ [][ExprNext]_vars

InitMain == MainInit /\ LinesIdle /\ StmtIdle

SpecMain == InitMain /\ [][MainNext]_vars

(***************************************************************************)
(* Vocabulary of the properties of count_statements.                       *)
(***************************************************************************)
\* the paths of all the nodes of the tree below and including n
RECURSIVE AllPaths(_, _)
AllPaths(n, path) ==
    {path} \cup UNION {UNION {AllPaths(n[AllFields[i]][j], Append(path, <<AllFields[i], j>>)) :
                                j \in 1..Len(n[AllFields[i]])} : i \in 1..Len(AllFields)}

Paths == AllPaths(root_node, <<>>)

KindAt(p) == NodeAt(root_node, p).kind

\* p is q or an ancestor of q
Above(p, q) == Len(p) <= Len(q) /\ SubSeq(q, 1, Len(p)) = p

Inside(p, q) == Above(p, q) /\ p # q

\* the times the callback was invoked on the node at p
Calls(p) == Cardinality({i \in 1..Len(visited) : visited[i] = p})

\* the first call of the callback on the node at p
FirstCall(p) == CHOOSE i \in 1..Len(visited) :
                  visited[i] = p /\ \A j \in 1..Len(visited) : visited[j] = p => i <= j

\* what the calls on the selected nodes added to count
RECURSIVE Added(_, _)
Added(Sel(_), i) ==
    IF i > Len(visited) THEN 0
    ELSE (IF Sel(visited[i]) THEN EffectiveCount(NodeAt(root_node, visited[i])) ELSE 0)
         + Added(Sel, i + 1)

\* what the node at p and the nodes inside it added to count
Contribution(p) == LET Sel(q) == Above(p, q) IN Added(Sel, 1)

\* what the node at p added to count for itself
OwnCount(p) == LET Sel(q) == q = p IN Added(Sel, 1)

RECURSIVE SumOver(_, _, _)
SumOver(F(_), n, i) == IF i > n THEN 0 ELSE F(i) + SumOver(F, n, i + 1)

\* what the statements of the body of the node at p added to count
BodyContribution(p) ==
    LET F(i) == Contribution(Append(p, <<"body", i>>))
    IN SumOver(F, Len(NodeAt(root_node, p).body), 1)

\* the body of the node at p was visited statement by statement, in order
BodyVisitedInOrder(p) ==
    LET n == Len(NodeAt(root_node, p).body) IN
      /\ \A i \in 1..n : Calls(Append(p, <<"body", i>>)) = 1
      /\ \A i \in 1..n : FirstCall(p) < FirstCall(Append(p, <<"body", i>>))
      /\ \A i \in 1..n, j \in 1..n :
           i < j => \A k \in 1..Len(visited) :
                      Above(Append(p, <<"body", i>>), visited[k])
                        => k < FirstCall(Append(p, <<"body", j>>))

\* the node at p is a definition whose name one of the patterns matches
ExcludedDef(p) ==
    /\ KindAt(p) \in {"FunctionDef", "AsyncFunctionDef", "ClassDef"}
    /\ \E i \in 1..Len(exclude_name_patterns) :
         IsPrefix(exclude_name_patterns[i], NodeAt(root_node, p).name)

\* the node at p lies inside a definition that is excluded by name
InsideExcluded(p) == \E q \in Paths : ExcludedDef(q) /\ Inside(q, p)

Returned == stmt_pc = "returned"

(***************************************************************************)
(* C1.  For every definition the traversal reaches: if a pattern matches   *)
(* its name it adds exactly 1 and nothing inside it is visited; otherwise  *)
(* it adds 1 plus what its body adds, every statement of the body being    *)
(* visited once, in order.                                                 *)
(***************************************************************************)
C1_ExclusionSkipsBodyOnly ==
    Returned =>
      \A p \in Paths :
        (KindAt(p) \in {"FunctionDef", "AsyncFunctionDef", "ClassDef"} /\ Calls(p) > 0) =>
          /\ Calls(p) = 1
          /\ OwnCount(p) = 1
          /\ ExcludedDef(p) =>
               /\ Contribution(p) = 1
               /\ \A q \in Paths : Inside(p, q) => Calls(q) = 0
          /\ ~ExcludedDef(p) =>
               /\ BodyVisitedInOrder(p)
               /\ Contribution(p) = 1 + BodyContribution(p)

\* an excluded definition with a body beside a definition with a body that
\* no pattern matches: the first adds 1, the second 2
C1_Witness ==
    /\ Returned
    /\ \E p \in Paths, q \in Paths :
         /\ Len(p) = Len(q) /\ Len(p) >= 1
         /\ SubSeq(p, 1, Len(p) - 1) = SubSeq(q, 1, Len(q) - 1)
         /\ ExcludedDef(p) /\ Calls(p) = 1
         /\ KindAt(q) \in {"FunctionDef", "ClassDef"} /\ ~ExcludedDef(q) /\ Calls(q) = 1
         /\ Contribution(q) = 2 /\ Contribution(p) = 1
         /\ count = 3

(***************************************************************************)
(* C4.  The callback is invoked exactly once on every statement node that  *)
(* is not inside a definition excluded by name, whatever statement holds   *)
(* it.                                                                     *)
(***************************************************************************)
C4_EveryStatementVisitedOnce ==
    Returned =>
      \A p \in Paths :
        (KindAt(p) \in StmtKinds /\ ~InsideExcluded(p)) => Calls(p) = 1

C9_WithBlockNotCounted ==
    Returned =>
      \A p \in Paths :
        (KindAt(p) \in {"With", "AsyncWith"} /\ Calls(p) > 0) =>
          Contribution(p) = BodyContribution(p)

(***************************************************************************)
(* C9, amended.  A with block and an exception handler that the traversal  *)
(* reaches are entered, their body is visited in order, and each adds 1    *)
(* for itself besides what its body adds; of the kinds whose body alone is *)
(* visited only the Module adds nothing for itself.                        *)
(***************************************************************************)
C9_WithBlockCountsOne ==
    Returned =>
      /\ Calls(<<>>) = 1 /\ BodyVisitedInOrder(<<>>)
      /\ count = BodyContribution(<<>>)
      /\ \A p \in Paths :
           (KindAt(p) \in {"With", "AsyncWith", "ExceptHandler"} /\ Calls(p) > 0) =>
             /\ BodyVisitedInOrder(p)
             /\ Contribution(p) = 1 + BodyContribution(p)

\* a with block of two statements, one that counts and one that does not
C9_Witness ==
    /\ Returned
    /\ \E p \in Paths :
         /\ KindAt(p) = "With" /\ Calls(p) = 1
         /\ Len(NodeAt(root_node, p).body) = 2
         /\ BodyContribution(p) = 1
         /\ Contribution(p) = 2

(***************************************************************************)
(* C6.  An Expr statement adds 1 to the count exactly when its value is a  *)
(* call, await, yield or yield-from, and 0 otherwise; the Module adds 0;   *)
(* every other statement adds 1.  So, every statement being visited, the   *)
(* count is the number of statements that are not an Expr of another kind  *)
(* of value.                                                               *)
(***************************************************************************)
C6_ExprCountsOnlyEffects ==
    Returned =>
      /\ OwnCount(<<>>) = 0
      /\ \A p \in Paths :
           KindAt(p) = "Expr" =>
             /\ Calls(p) = 1
             /\ OwnCount(p) = IF NodeAt(root_node, p).value
                                   \in {"Call", "Await", "Yield", "YieldFrom"}
                              THEN 1 ELSE 0
      /\ count = Cardinality({p \in Paths :
                   /\ p # <<>>
                   /\ KindAt(p) = "Expr" =>
                        NodeAt(root_node, p).value \in {"Call", "Await", "Yield", "YieldFrom"}})

\* a call and a literal side by side: the call counts, the literal does not
C6_Witness ==
    /\ Returned
    /\ Len(root_node.body) = 2
    /\ root_node.body[1].kind = "Expr" /\ root_node.body[1].value = "Call"
    /\ root_node.body[2].kind = "Expr" /\ root_node.body[2].value = "Constant"
    /\ count = 1

(***************************************************************************)
(* Vocabulary of the properties of count_lines.                            *)
(***************************************************************************)
LinesReturned == lines_pc = "returned"

\* the lines token number i spans
Span(i) == LineRange(tokens[i].start, tokens[i].end)

StringTokens == {i \in 1..Len(tokens) : tokens[i].type = "STRING"}

\* the characters Python calls whitespace
Whitespace == {"nl", "sp", "tab", "cr", "ff"}

\* the source line of token i, all whitespace removed, starts and ends with
\* the same triple-quote delimiter
DelimitedWithoutWhitespace(i) ==
    LET l == SelectSeq(tokens[i].line, LAMBDA c : c \notin Whitespace) IN
      l # <<>> /\ \E q \in {"dq3", "sq3"} : l[1] = q /\ l[Len(l)] = q

(***************************************************************************)
(* C2.  On every text count_lines returns for: total_lines >=              *)
(* nonblank_lines >= commented_lines >= 0, every inline-comment line and   *)
(* every block-comment line is a nonblank line, and every nonblank line is *)
(* a line of the text.                                                     *)
(***************************************************************************)
C2_CountsOrdered ==
    LinesReturned =>
      /\ lines_result[1] = num_lines
      /\ lines_result[2] = Cardinality(nonblank_lines)
      /\ lines_result[3] = Cardinality(inline_comment_lines \cup block_comment_lines)
      /\ lines_result[1] >= lines_result[2]
      /\ lines_result[2] >= lines_result[3]
      /\ lines_result[3] >= 0
      /\ inline_comment_lines \subseteq nonblank_lines
      /\ block_comment_lines \subseteq nonblank_lines
      /\ nonblank_lines \subseteq 1..num_lines

\* a text with a comment line, a code line and a blank line
C2_Witness ==
    /\ LinesReturned
    /\ lines_result[1] > lines_result[2]
    /\ lines_result[2] > lines_result[3]
    /\ lines_result[3] > 0

(***************************************************************************)
(* C5.  After count_lines every line that carries a token other than a     *)
(* structural one is in the nonblank set, string tokens included.          *)
(***************************************************************************)
C5_TokenLinesNonblank ==
    LinesReturned =>
      \A i \in 1..Len(tokens) :
        tokens[i].type \notin {"ENCODING", "ENDMARKER", "NEWLINE", "INDENT", "DEDENT", "NL"}
          => Span(i) \subseteq nonblank_lines

(***************************************************************************)
(* C10.  A string token is treated as a block comment exactly when its     *)
(* source line, all whitespace removed, starts and ends with the same      *)
(* triple-quote delimiter: every line such a token spans that the first    *)
(* pass did not mark is in the block-comment set and the nonblank set, and *)
(* the block-comment set holds no other line.                              *)
(***************************************************************************)
C10_BlockCommentTest ==
    LinesReturned =>
      LET first == FirstPass(tokens).nonblank IN
        /\ \A i \in StringTokens :
             DelimitedWithoutWhitespace(i) =>
               \A l \in Span(i) \ first :
                 l \in block_comment_lines /\ l \in nonblank_lines
        /\ \A l \in block_comment_lines :
             /\ l \notin first
             /\ \E i \in StringTokens : l \in Span(i) /\ DelimitedWithoutWhitespace(i)

(***************************************************************************)
(* Vocabulary of the properties of main.                                   *)
(***************************************************************************)
\* the files the loop has been through
Analyzed == 1..(next_file - 1)

\* the files analyze_file gives a result for
Successful(S) == {i \in S : filenames[i].raises = "none"}

\* the log entries about file i
EntriesOf(i) == {k \in 1..Len(log) : "file" \in DOMAIN log[k] /\ log[k].file = i}

RECURSIVE SumMetric(_, _, _)
SumMetric(k, S, i) ==
    IF i > Len(filenames) THEN 0
    ELSE (IF i \in S THEN filenames[i].metrics[k] ELSE 0) + SumMetric(k, S, i + 1)

(***************************************************************************)
(* C3.  analyze_file never lets a failure of reading or analysing a file   *)
(* out: a file that cannot be read (missing, not permitted, badly         *)
(* encoded), parsed or lexed gives None and one advisory log entry, and    *)
(* every other file gives its complete 4-tuple.                            *)
(***************************************************************************)
C3_AnalyzeFileNeverRaises ==
    main_pc \in {"loop", "done", "crashed"} =>
      /\ main_pc # "crashed"
      /\ \A i \in Analyzed :
           IF filenames[i].raises # "none"
             THEN /\ Cardinality(EntriesOf(i)) = 1
                  /\ \A k \in EntriesOf(i) :
                       log[k].msg \in {"Failed to open", "File has syntax error"}
             ELSE /\ Cardinality(EntriesOf(i)) = 1
                  /\ \A k \in EntriesOf(i) :
                       log[k].msg = "Result" /\ Len(log[k].metrics) = 4

(***************************************************************************)
(* C8.  Whatever files fail, main goes through every file once, in order,  *)
(* never stops early, and ends with one overall entry, the last of the     *)
(* log, whose file count is the number of files with a result and whose    *)
(* totals are the sums over those files.                                   *)
(***************************************************************************)
C8_MainSumsEveryFile ==
    /\ main_pc # "crashed"
    /\ main_pc = "loop" => \A k \in 1..Len(log) : log[k].msg # "Overall result"
    /\ main_pc = "done" =>
         /\ next_file = Len(filenames) + 1
         /\ \A i \in 1..Len(filenames) : Cardinality(EntriesOf(i)) = 1
         /\ \A j \in 1..Len(log), k \in 1..Len(log) :
              (j < k /\ "file" \in DOMAIN log[j] /\ "file" \in DOMAIN log[k])
                => log[j].file < log[k].file
         /\ log # <<>>
         /\ log[Len(log)].msg = "Overall result"
         /\ Cardinality({k \in 1..Len(log) : log[k].msg = "Overall result"}) = 1
         /\ log[Len(log)].files = Cardinality(Successful(1..Len(filenames)))
         /\ \A k \in 1..4 :
              log[Len(log)].metrics[k] = SumMetric(k, Successful(1..Len(filenames)), 1)

====
